---- MODULE Spec2Model ----
(***************************************************************************)
(* Model of the grants-mvp job-correlation pipeline: the workflow          *)
(* dispatchers, the result callback receivers, the result poll endpoints,  *)
(* the profile stager and the profile associator, all sharing one          *)
(* TTL-capable key/value store (Upstash Redis).                            *)
(***************************************************************************)
EXTENDS Integers, Sequences, FiniteSets, TLC

(***************************************************************************)
(* Bounds of the model.                                                    *)
(***************************************************************************)
TickSeconds == 1800    \* seconds the clock advances in one Tick
MaxClock == 3600       \* the clock stops advancing at this time
NumPrompts == 2        \* prompts of the direct fan-out (the source configures 8)

(***************************************************************************)
(* Program constants.                                                      *)
(***************************************************************************)
TTL == 3600            \* { ex: 3600 } of every redis.set with an expiry
N8N_API_KEY == "secret"   \* process.env.N8N_API_KEY
NoExpiry == -1         \* a redis.set without ex

CorrIds == {"c1", "c2"}          \* values uuidv4() can return for a job
NoHeader == "<null>"             \* headers.get / searchParams.get returned null
HeaderIds == CorrIds \cup {NoHeader, ""}
ApiKeys == {NoHeader, "wrong", N8N_API_KEY}

(***************************************************************************)
(* JSON values.  An object keeps its members as an ordered sequence of     *)
(* key/value pairs, as a JavaScript object keeps insertion order.          *)
(***************************************************************************)
JStr(s) == [t |-> "str", v |-> s]
JNum(n) == [t |-> "num", v |-> n]
JNull == [t |-> "null", v |-> ""]
JUndef == [t |-> "undef", v |-> ""]
JArr(s) == [t |-> "arr", v |-> s]
JObj(ps) == [t |-> "obj", v |-> ps]
Pair(k, x) == [k |-> k, val |-> x]
\* the value a failed JSON.parse / req.json() stands for (a thrown SyntaxError)
ParseError == [t |-> "throw", v |-> "SyntaxError"]

\* tokens of a JSON text
Tok(kind, text) == <<kind, text>>
LBrace == Tok("p", "{")
RBrace == Tok("p", "}")
LBrack == Tok("p", "[")
RBrack == Tok("p", "]")
Comma == Tok("p", ",")
Colon == Tok("p", ":")
NullTok == Tok("l", "null")

\* obj.key : the value of the last member named key, undefined if none or if
\* obj is a primitive (property access on a string or a number)
RECURSIVE LookupPairs(_, _)
LookupPairs(ps, key) ==
  IF ps = <<>> THEN JUndef
  ELSE LET p == ps[Len(ps)]
       IN IF p.k = key THEN p.val ELSE LookupPairs(SubSeq(ps, 1, Len(ps) - 1), key)

Prop(x, key) == IF x.t = "obj" THEN LookupPairs(x.v, key) ELSE JUndef

\* JavaScript truthiness (!x is ~Truthy(x))
Truthy(x) ==
  CASE x.t = "undef" -> FALSE
    [] x.t = "null" -> FALSE
    [] x.t = "str" -> x.v # ""
    [] x.t = "num" -> x.v # "0"
    [] OTHER -> TRUE

IsString(x) == x.t = "str"
IsArray(x) == x.t = "arr"
\* property access on null or undefined throws a TypeError
IsNullish(x) == x.t \in {"null", "undef"}

\* JSON.stringify: members whose value is undefined are dropped from objects,
\* undefined array elements are written as null
RECURSIVE Stringify(_), StringifyElems(_), StringifyPairs(_)
Stringify(x) ==
  CASE x.t = "str" -> <<Tok("s", x.v)>>
    [] x.t = "num" -> <<Tok("n", x.v)>>
    [] x.t = "null" -> <<NullTok>>
    [] x.t = "arr" -> <<LBrack>> \o StringifyElems(x.v) \o <<RBrack>>
    [] x.t = "obj" ->
         <<LBrace>> \o StringifyPairs(SelectSeq(x.v, LAMBDA p : p.val.t # "undef"))
                    \o <<RBrace>>
StringifyElems(s) ==
  IF s = <<>> THEN <<>>
  ELSE (IF Head(s).t = "undef" THEN <<NullTok>> ELSE Stringify(Head(s)))
       \o (IF Len(s) > 1 THEN <<Comma>> ELSE <<>>)
       \o StringifyElems(Tail(s))
StringifyPairs(ps) ==
  IF ps = <<>> THEN <<>>
  ELSE <<Tok("s", Head(ps).k), Colon>> \o Stringify(Head(ps).val)
       \o (IF Len(ps) > 1 THEN <<Comma>> ELSE <<>>)
       \o StringifyPairs(Tail(ps))

\* JSON.parse, by recursive descent; a result is [ok, val, rest]
PFail == [ok |-> FALSE, val |-> JUndef, rest |-> <<>>]
POk(x, rest) == [ok |-> TRUE, val |-> x, rest |-> rest]
RECURSIVE ParseValue(_), ParseElems(_, _), ParseMembers(_, _)
ParseValue(ts) ==
  IF ts = <<>> THEN PFail
  ELSE LET h == Head(ts)
       IN CASE h[1] = "s" -> POk(JStr(h[2]), Tail(ts))
            [] h[1] = "n" -> POk(JNum(h[2]), Tail(ts))
            [] h[1] = "l" -> POk(JNull, Tail(ts))
            [] h = LBrack ->
                 IF Len(ts) > 1 /\ ts[2] = RBrack
                 THEN POk(JArr(<<>>), Tail(Tail(ts)))
                 ELSE ParseElems(Tail(ts), <<>>)
            [] h = LBrace ->
                 IF Len(ts) > 1 /\ ts[2] = RBrace
                 THEN POk(JObj(<<>>), Tail(Tail(ts)))
                 ELSE ParseMembers(Tail(ts), <<>>)
            [] OTHER -> PFail
ParseElems(ts, acc) ==
  LET e == ParseValue(ts)
  IN IF ~e.ok \/ e.rest = <<>> THEN PFail
     ELSE IF Head(e.rest) = RBrack THEN POk(JArr(Append(acc, e.val)), Tail(e.rest))
     ELSE IF Head(e.rest) = Comma THEN ParseElems(Tail(e.rest), Append(acc, e.val))
     ELSE PFail
ParseMembers(ts, acc) ==
  IF Len(ts) < 3 \/ ts[1][1] # "s" \/ ts[2] # Colon THEN PFail
  ELSE LET e == ParseValue(SubSeq(ts, 3, Len(ts)))
           ps == Append(acc, Pair(ts[1][2], e.val))
       IN IF ~e.ok \/ e.rest = <<>> THEN PFail
          ELSE IF Head(e.rest) = RBrace THEN POk(JObj(ps), Tail(e.rest))
          ELSE IF Head(e.rest) = Comma THEN ParseMembers(Tail(e.rest), ps)
          ELSE PFail

JSONparse(ts) ==
  LET r == ParseValue(ts)
  IN IF r.ok /\ r.rest = <<>> THEN r.val ELSE ParseError

(***************************************************************************)
(* Request bodies the callback producers send.                             *)
(***************************************************************************)
Res(p, a) == JObj(<<Pair("prompt", p), Pair("answer", a)>>)
Body(d, rs) == JObj(<<Pair("domain", d), Pair("results", rs)>>)

P1 == Body(JStr("https://acme.com"),
           JArr(<<Res(JStr("p1"), JStr("a1")), Res(JStr("p2"), JStr("a2"))>>))
P2 == Body(JStr("https://beta.io"), JArr(<<Res(JStr("p1"), JStr("b1"))>>))
WellFormedBodies == {P1, P2}
MalformedBodies ==
  { Body(JStr("https://acme.com"), JArr(<<>>)),                          \* empty results
    Body(JStr("https://acme.com"), JStr("a1")),                          \* results not an array
    Body(JUndef, JArr(<<Res(JStr("p1"), JStr("a1"))>>)),                 \* no domain
    Body(JStr("https://acme.com"), JArr(<<Res(JStr(""), JStr("a1"))>>)),  \* empty prompt
    JNull }                                                              \* body is null
BadText == <<LBrace>>    \* a request text that is not JSON
BodyTexts == {Stringify(b) : b \in WellFormedBodies \cup MalformedBodies} \cup {BadText}

(***************************************************************************)
(* The key/value store (Upstash Redis): a map from the keys present to     *)
(* [val, exp]; val is the stored text, exp the time the key expires.       *)
(***************************************************************************)
ResultKey(id) == <<"result", id>>
TempProfileKey(id) == <<"temp_profile", id>>
UserProfileKey(id) == <<"user_profile", id>>

\* a store that keeps the value a key already has (SET ... NX)
RedisSetIfAbsent(db, key, text, exp) ==
  [k \in DOMAIN db \cup {key} |->
     IF k = key /\ key \notin DOMAIN db THEN [val |-> text, exp |-> exp] ELSE db[k]]

\* a store that keeps the expiry a key already has (SET ... KEEPTTL)
RedisSetKeepExpiry(db, key, text, exp) ==
  [k \in DOMAIN db \cup {key} |->
     IF k = key
     THEN [val |-> text, exp |-> IF key \in DOMAIN db THEN db[key].exp ELSE exp]
     ELSE db[k]]

RedisSet(db, key, text, exp) ==
  [k \in DOMAIN db \cup {key} |-> IF k = key THEN [val |-> text, exp |-> exp] ELSE db[k]]
RedisDel(db, key) == [k \in DOMAIN db \ {key} |-> db[k]]
\* redis.get: null for a missing key, else the stored text deserialized
RedisGet(db, key) == IF key \in DOMAIN db THEN JSONparse(db[key].val) ELSE JNull
\* the keys that survive at time t
Unexpired(db, t) ==
  [k \in {x \in DOMAIN db : db[x].exp = NoExpiry \/ db[x].exp > t} |-> db[k]]

TempIds == {"t1", "t2"}          \* values uuidv4() can return for a staged profile
Users == {"u1", "u2"}            \* identities the identity provider authenticates
NoUser == "<null>"               \* auth() returned no userId

VARIABLES
  now,        \* the clock of the key/value store, in seconds
  redis,      \* the key/value store
  wrote,      \* per key, the time of the latest write a handler answered 200 to
  results,    \* the in-memory Map of the first get-results route
  deployed,   \* the variant of the receive-results route that is deployed
  rcv,        \* the callback requests being handled, one per slot
  accepted,   \* per correlation id, the body of the latest callback answered 200
  resp,       \* the response the latest step sent, when that step was a whole
              \* single-call handler (poll, stage); NoResp after any other step
  tempUsed,   \* the temp ids uuidv4() has returned
  staged,     \* per temp id, the profile stage answered 200 to
  asc,        \* the associate requests being handled, one per slot
  su,         \* the sign-up page of one browser
  corrUsed,   \* the correlation ids uuidv4() has returned
  disp,       \* the trigger-workflow requests being handled, one per slot
  cli,        \* the profile page of one browser: its poll loop
  land        \* the landing page of that browser and its localStorage

kvsVars == <<now, redis, wrote>>
jobVars == <<results, cli, land, deployed, rcv, accepted, corrUsed, disp>>
profVars == <<tempUsed, staged, asc, su>>
dispVars == <<corrUsed, disp>>
vars == <<now, redis, wrote, results, deployed, rcv, accepted, resp, tempUsed, staged, asc,
          su, corrUsed, disp, cli, land>>

RcvSlots == {1, 2}      \* the callback requests of one behaviour
AscSlots == {1, 2}      \* the associate requests of one behaviour
RcvVariants == {"validated", "cors", "apikey", "unvalidated"}
PollVariants == {"redis", "memory"}

DispSlots == {1, 2}     \* the trigger-workflow requests of one behaviour
DispVariants == {"direct", "delegated", "delegated_early"}
NoIdVariant == "delegated_noid"   \* the delegated handler that allocates no id
External == 0           \* the sender of a callback no dispatcher of the model sent

RcvIdle == [pc |-> "idle", src |-> External, id |-> "", body |-> JUndef, status |-> 0]
Pending == JUndef       \* the answer of a completion query still in flight
DispIdle == [pc |-> "idle", variant |-> "none", id |-> "", domain |-> JUndef,
             answers |-> <<>>, status |-> 0, body |-> JUndef]
NoResp == [op |-> "none", variant |-> "none", id |-> "", fault |-> FALSE, status |-> 0,
           body |-> JUndef]
\* the landing page with nothing in localStorage: handled are the dispatches
\* whose response the page has seen, lastOk the id allocated by the latest
\* one answered 200
LandIdle == [page |-> "landing", requestId |-> NoHeader, handled |-> {}, lastOk |-> ""]
CliIdle == [pc |-> "idle", id |-> "", api |-> "none"]
SignUpPage == 1         \* the sender of the associate request of the sign-up page
NoTempProfileId == ""   \* localStorage.getItem('tempProfileId') returned null
\* the sign-up page before the sign-up completes
SuIdle == [pc |-> "form", user |-> NoUser, tempId |-> NoTempProfileId, active |-> FALSE,
           slot |-> 0]
AscIdle == [pc |-> "idle", user |-> NoUser, tempId |-> "", tempProfile |-> JUndef, status |-> 0]

\* wrote after a handler's write to key at time t
Wrote(w, key, t) == [k \in DOMAIN w \cup {key} |-> IF k = key THEN t ELSE w[k]]

Init ==
  /\ now = 0
  /\ redis = <<>>
  /\ wrote = <<>>
  /\ results = <<>>
  /\ deployed \in RcvVariants
  /\ rcv = [r \in RcvSlots |-> RcvIdle]
  /\ accepted = [c \in CorrIds |-> JUndef]
  /\ resp = NoResp
  /\ tempUsed = {}
  /\ staged = [t \in TempIds |-> JUndef]
  /\ asc = [a \in AscSlots |-> AscIdle]
  /\ su = SuIdle
  /\ corrUsed = {}
  /\ disp = [d \in DispSlots |-> DispIdle]
  /\ cli = CliIdle
  /\ land = LandIdle

(***************************************************************************)
(* Result callback receivers: POST /api/receive-results, four variants.    *)
(***************************************************************************)
\* body.results.forEach(...) of the validated variant: TRUE iff no element throws
ResultOk(x) ==
  /\ ~IsNullish(x)
  /\ Truthy(Prop(x, "prompt")) /\ IsString(Prop(x, "prompt"))
  /\ Truthy(Prop(x, "answer")) /\ IsString(Prop(x, "answer"))

\* the checks of the validated variant between req.json() and redis.set
ValidBody(body) ==
  /\ ~IsNullish(body)
  /\ Truthy(Prop(body, "results")) /\ IsArray(Prop(body, "results"))
  /\ Len(Prop(body, "results").v) # 0
  /\ Truthy(Prop(body, "domain")) /\ IsString(Prop(body, "domain"))
  /\ \A i \in 1..Len(Prop(body, "results").v) : ResultOk(Prop(body, "results").v[i])

\* the status every throw inside the handler's try block is answered with
CatchStatus(variant) == IF variant = "validated" THEN 400 ELSE 500

\* what the handler does before its redis.set: 0 stands for reaching redis.set
PreStoreStatus(variant, apiKey, reqId, body) ==
  IF variant = "apikey" /\ apiKey # N8N_API_KEY THEN 401
  ELSE IF body = ParseError THEN CatchStatus(variant)
  ELSE IF reqId = NoHeader \/ reqId = "" THEN CatchStatus(variant)
  ELSE IF variant = "validated" /\ ~ValidBody(body) THEN CatchStatus(variant)
  ELSE 0

\* the request arrives from src: headers and body are read and checked
ReceiveFrom(r, src, apiKey, reqId, text) ==
  /\ rcv[r].pc = "idle"
  /\ \A q \in RcvSlots : q < r => rcv[q].pc # "idle"
  /\ LET body == JSONparse(text)
         st == PreStoreStatus(deployed, apiKey, reqId, body)
     IN rcv' = [rcv EXCEPT ![r] =
                  IF st = 0
                  THEN [pc |-> "set", src |-> src, id |-> reqId, body |-> body,
                        status |-> 0]
                  ELSE [pc |-> "done", src |-> src, id |-> "", body |-> JUndef,
                        status |-> st]]
  /\ resp' = NoResp
  /\ UNCHANGED <<kvsVars, results, land, cli, deployed, accepted, profVars, dispVars>>

\* a callback of a producer outside the model (the automation engine, a retry)
ReceiveRequest(r, apiKey, reqId, text) == ReceiveFrom(r, External, apiKey, reqId, text)

\* a receiver that keeps the payload a job already has and still answers 200
ReceiveStoreWriteOnce(r, ok) ==
  /\ rcv[r].pc = "set"
  /\ IF ok
     THEN /\ IF ResultKey(rcv[r].id) \in DOMAIN redis
             THEN UNCHANGED <<redis, wrote, accepted>>
             ELSE /\ redis' = RedisSet(redis, ResultKey(rcv[r].id), Stringify(rcv[r].body),
                                       now + TTL)
                  /\ wrote' = Wrote(wrote, ResultKey(rcv[r].id), now)
                  /\ accepted' = [accepted EXCEPT ![rcv[r].id] = rcv[r].body]
          /\ rcv' = [rcv EXCEPT ![r].pc = "done", ![r].status = 200]
     ELSE /\ rcv' = [rcv EXCEPT ![r] = [pc |-> "done", src |-> rcv[r].src, id |-> "",
                                        body |-> JUndef,
                                        status |-> CatchStatus(deployed)]]
          /\ UNCHANGED <<redis, wrote, accepted>>
  /\ resp' = NoResp
  /\ UNCHANGED <<now, results, land, cli, deployed, profVars, dispVars>>

\* await redis.set(`result:${requestId}`, JSON.stringify(body), { ex: 3600 })
\* and the response that follows it; ok = FALSE is a failed store call
ReceiveStore(r, ok) ==
  /\ rcv[r].pc = "set"
  /\ IF ok
     THEN /\ redis' = RedisSet(redis, ResultKey(rcv[r].id), Stringify(rcv[r].body), now + TTL)
          /\ wrote' = Wrote(wrote, ResultKey(rcv[r].id), now)
          /\ rcv' = [rcv EXCEPT ![r].pc = "done", ![r].status = 200]
          /\ accepted' = [accepted EXCEPT ![rcv[r].id] = rcv[r].body]
     ELSE /\ rcv' = [rcv EXCEPT ![r] = [pc |-> "done", src |-> rcv[r].src, id |-> "",
                                        body |-> JUndef,
                                        status |-> CatchStatus(deployed)]]
          /\ UNCHANGED <<redis, wrote, accepted>>
  /\ resp' = NoResp
  /\ UNCHANGED <<now, results, land, cli, deployed, profVars, dispVars>>

(***************************************************************************)
(* Result poll endpoints: GET /api/get-results, two variants.              *)
(***************************************************************************)
\* a GET that answers with the results array alone instead of the stored object
PollRedisReturnsResults(db, initOk, ok, reqId) ==
  IF ~initOk THEN [status |-> 500, body |-> JUndef]
  ELSE IF reqId = NoHeader \/ reqId = "" THEN [status |-> 400, body |-> JUndef]
  ELSE IF ~ok THEN [status |-> 500, body |-> JUndef]
  ELSE LET result == RedisGet(db, ResultKey(reqId))
       IN IF Truthy(result)
          THEN IF \/ ~Truthy(Prop(result, "results"))
                  \/ ~IsArray(Prop(result, "results"))
                  \/ ~Truthy(Prop(result, "domain"))
               THEN [status |-> 500, body |-> JUndef]
               ELSE [status |-> 200, body |-> Prop(result, "results")]
          ELSE [status |-> 404, body |-> JUndef]

\* a GET that validates the value it read without first testing it for null
PollRedisNoNullTest(db, initOk, ok, reqId) ==
  IF ~initOk THEN [status |-> 500, body |-> JUndef]
  ELSE IF reqId = NoHeader \/ reqId = "" THEN [status |-> 400, body |-> JUndef]
  ELSE IF ~ok THEN [status |-> 500, body |-> JUndef]
  ELSE LET result == RedisGet(db, ResultKey(reqId))
       IN IF \/ ~Truthy(Prop(result, "results"))
             \/ ~IsArray(Prop(result, "results"))
             \/ ~Truthy(Prop(result, "domain"))
          THEN [status |-> 500, body |-> JUndef]
          ELSE [status |-> 200, body |-> result]

\* the Redis-backed GET; initOk = FALSE is a client that failed to initialize,
\* ok = FALSE a failed redis.get
PollRedisResponse(db, initOk, ok, reqId) ==
  IF ~initOk THEN [status |-> 500, body |-> JUndef]
  ELSE IF reqId = NoHeader \/ reqId = "" THEN [status |-> 400, body |-> JUndef]
  ELSE IF ~ok THEN [status |-> 500, body |-> JUndef]
  ELSE LET result == RedisGet(db, ResultKey(reqId))
       IN IF Truthy(result)
          THEN IF \/ ~Truthy(Prop(result, "results"))
                  \/ ~IsArray(Prop(result, "results"))
                  \/ ~Truthy(Prop(result, "domain"))
               THEN [status |-> 500, body |-> JUndef]
               ELSE [status |-> 200, body |-> result]
          ELSE [status |-> 404, body |-> JUndef]

\* a poll that renews the lifetime of the result it reads
PollRedisRenews(initOk, ok, reqId) ==
  /\ LET r == PollRedisResponse(redis, initOk, ok, reqId)
     IN resp' = [op |-> "poll", variant |-> "redis", id |-> reqId,
                 fault |-> ~(initOk /\ ok), status |-> r.status, body |-> r.body]
  /\ redis' = [k \in DOMAIN redis |->
                 IF k = ResultKey(reqId) /\ redis[k].exp # NoExpiry
                 THEN [redis[k] EXCEPT !.exp = now + TTL]
                 ELSE redis[k]]
  /\ UNCHANGED <<now, wrote, jobVars, profVars>>

PollRedis(initOk, ok, reqId) ==
  /\ LET r == PollRedisResponse(redis, initOk, ok, reqId)
     IN resp' = [op |-> "poll", variant |-> "redis", id |-> reqId,
                 fault |-> ~(initOk /\ ok), status |-> r.status, body |-> r.body]
  /\ UNCHANGED <<kvsVars, jobVars, profVars>>

\* the GET over the module-level Map
PollMemoryResponse(map, reqId) ==
  IF reqId \in DOMAIN map
  THEN [status |-> 200, body |-> map[reqId]]
  ELSE [status |-> 404, body |-> JUndef]

PollMemory(reqId) ==
  /\ LET r == PollMemoryResponse(results, reqId)
     IN resp' = [op |-> "poll", variant |-> "memory", id |-> reqId, fault |-> FALSE,
                 status |-> r.status, body |-> r.body]
  /\ UNCHANGED <<kvsVars, jobVars, profVars>>

(***************************************************************************)
(* The profile page (CompanyProfileComponent): fetchData polls get-results *)
(* for the requestId in localStorage.                                      *)
(***************************************************************************)
ClientStopped == {"shown", "error", "redirect"}

\* the page mounts and useEffect calls fetchData: no requestId in
\* localStorage sends the browser back to the landing page
ClientStart(reqId, api) ==
  /\ cli.pc = "idle"
  /\ cli' = IF reqId = NoHeader \/ reqId = ""
            THEN [pc |-> "redirect", id |-> "", api |-> api]
            ELSE [pc |-> "fetch", id |-> reqId, api |-> api]
  /\ resp' = NoResp
  /\ UNCHANGED <<kvsVars, results, land, deployed, rcv, accepted, profVars, dispVars>>

\* dataStructure, flattened: Object.values(dataStructure).flat()
DataFields ==
  << [key |-> "company_name", promptIndex |-> 0],
     [key |-> "contact_email", promptIndex |-> -1],
     [key |-> "industry_sector", promptIndex |-> 1],
     [key |-> "company_overview", promptIndex |-> 2],
     [key |-> "core_products_or_services", promptIndex |-> 3],
     [key |-> "unique_selling_proposition", promptIndex |-> 4],
     [key |-> "research_development_activities", promptIndex |-> 5],
     [key |-> "target_audience", promptIndex |-> 6],
     [key |-> "key_clients_partners", promptIndex |-> 7] >>

NoKey == "<undefined>"   \* .find(...) found no field, ?.key is undefined

\* Object.values(dataStructure).flat().find(field => field.promptIndex === index)?.key
FieldKey(index) ==
  LET hits == {j \in 1..Len(DataFields) : DataFields[j].promptIndex = index}
  IN IF hits = {} THEN NoKey
     ELSE DataFields[CHOOSE j \in hits : \A k \in hits : j <= k].key

\* formattedData after the forEach over resultData.results: the three
\* initial members, then formattedData[key] = result.answer in array order
FormattedData(body) ==
  LET rs == Prop(body, "results").v
      initial == [k \in {"domain", "contact_email", "research_development_activities"} |->
                    IF k = "domain" THEN Prop(body, "domain") ELSE JStr("")]
      assigned == {FieldKey(n - 1) : n \in 1..Len(rs)} \ {NoKey}
      last(k) == CHOOSE n \in 1..Len(rs) :
                   /\ FieldKey(n - 1) = k
                   /\ \A m \in 1..Len(rs) : FieldKey(m - 1) = k => m <= n
  IN [k \in DOMAIN initial \cup assigned |->
        IF k \in assigned THEN Prop(rs[last(k)], "answer") ELSE initial[k]]

\* resultData.results.forEach(result => ... result.answer) runs through
Formattable(body) ==
  /\ IsArray(Prop(body, "results"))
  /\ \A i \in 1..Len(Prop(body, "results").v) : ~IsNullish(Prop(body, "results").v[i])

\* a page that also tries again after a server error
ClientReactionRetryErrors(net, status, body) ==
  IF ~net THEN "error"
  ELSE IF status \in 200..299 THEN IF Formattable(body) THEN "shown" ELSE "error"
  ELSE "sleep"

\* what fetchData does with the outcome of its fetch; net = FALSE is a fetch
\* that rejects
ClientReaction(net, status, body) ==
  IF ~net THEN "error"
  ELSE IF status \in 200..299 THEN IF Formattable(body) THEN "shown" ELSE "error"
  ELSE IF status = 404 THEN "sleep"
  ELSE "error"

\* the fetch of /api/get-results settles
ClientFetch(initOk, ok, net) ==
  /\ cli.pc = "fetch"
  \* the page passes the id in the query string, the in-memory route reads
  \* it from params, where there is none
  /\ LET r == IF cli.api = "redis" THEN PollRedisResponse(redis, initOk, ok, cli.id)
              ELSE PollMemoryResponse(results, NoHeader)
     IN /\ resp' = IF net
                   THEN [op |-> "poll", variant |-> cli.api, id |-> cli.id,
                         fault |-> cli.api = "redis" /\ ~(initOk /\ ok),
                         status |-> r.status, body |-> r.body]
                   ELSE NoResp
        /\ cli' = [cli EXCEPT !.pc = ClientReaction(net, r.status, r.body)]
  /\ UNCHANGED <<kvsVars, results, land, deployed, rcv, accepted, profVars, dispVars>>

\* setTimeout(fetchData, 1500) fires
ClientTimer ==
  /\ cli.pc = "sleep"
  /\ cli' = [cli EXCEPT !.pc = "fetch"]
  /\ resp' = NoResp
  /\ UNCHANGED <<kvsVars, results, land, deployed, rcv, accepted, profVars, dispVars>>

(***************************************************************************)
(* Time passes; keys whose expiry has been reached are gone.               *)
(***************************************************************************)
Tick ==
  /\ now < MaxClock
  /\ now' = now + TickSeconds
  /\ redis' = Unexpired(redis, now')
  /\ resp' = NoResp
  /\ UNCHANGED <<wrote, jobVars, profVars>>

(***************************************************************************)
(* Profile stager: POST /api/store-temp-profile.                           *)
(***************************************************************************)
Profile(name, email) ==
  JObj(<<Pair("company_name", JStr(name)), Pair("contact_email", JStr(email))>>)
Profiles == {Profile("Acme", "a@acme.com"), Profile("Beta", ""), JObj(<<>>)}
ProfileTexts == {Stringify(p) : p \in Profiles} \cup {BadText}

\* a stager whose redis.set carries no expiry
StageNoExpiry(text, t, ok) ==
  /\ t \in TempIds \ tempUsed
  /\ LET data == JSONparse(text)
     IN IF data = ParseError
        THEN /\ resp' = [NoResp EXCEPT !.op = "stage", !.status = 500]
             /\ UNCHANGED <<redis, wrote, tempUsed, staged, su>>
        ELSE /\ tempUsed' = tempUsed \cup {t}
             /\ IF ok
                THEN /\ redis' = RedisSet(redis, TempProfileKey(t), Stringify(data), NoExpiry)
                     /\ wrote' = Wrote(wrote, TempProfileKey(t), now)
                     /\ staged' = [staged EXCEPT ![t] = data]
                     /\ resp' = [NoResp EXCEPT !.op = "stage", !.status = 200, !.id = t]
                ELSE /\ resp' = [NoResp EXCEPT !.op = "stage", !.status = 500, !.fault = TRUE]
                     /\ UNCHANGED <<redis, wrote, staged>>
  /\ UNCHANGED <<now, jobVars, asc, su>>

\* t is the value uuidv4() returns; ok = FALSE is a failed redis.set
Stage(text, t, ok) ==
  /\ t \in TempIds \ tempUsed
  /\ LET data == JSONparse(text)
     IN IF data = ParseError
        THEN /\ resp' = [NoResp EXCEPT !.op = "stage", !.status = 500]
             /\ UNCHANGED <<redis, wrote, tempUsed, staged, su>>
        ELSE /\ tempUsed' = tempUsed \cup {t}
             /\ IF ok
                THEN /\ redis' = RedisSet(redis, TempProfileKey(t), Stringify(data), now + TTL)
                     /\ wrote' = Wrote(wrote, TempProfileKey(t), now)
                     /\ staged' = [staged EXCEPT ![t] = data]
                     /\ resp' = [NoResp EXCEPT !.op = "stage", !.status = 200, !.id = t]
                ELSE /\ resp' = [NoResp EXCEPT !.op = "stage", !.status = 500, !.fault = TRUE]
                     /\ UNCHANGED <<redis, wrote, staged>>
  /\ UNCHANGED <<now, jobVars, asc, su>>

(***************************************************************************)
(* Profile associator: POST /api/associate-profile.                        *)
(***************************************************************************)
TempIdBody(t) == JObj(<<Pair("tempId", JStr(t))>>)
AssocTexts == {Stringify(TempIdBody(t)) : t \in TempIds} \cup {Stringify(JObj(<<>>)), BadText}

\* `${tempId}` of the key template
TemplateText(x) ==
  CASE x.t = "str" -> x.v
    [] x.t = "undef" -> "undefined"
    [] x.t = "null" -> "null"
    [] x.t = "num" -> x.v
    [] OTHER -> "[object]"

AscDone(user, tempId, status) ==
  [pc |-> "done", user |-> user, tempId |-> tempId, tempProfile |-> JUndef, status |-> status]

\* an associator that looks the staged profile up before it checks the caller
AssocRequestAuthLast(a, user, text, ok) ==
  /\ asc[a].pc = "idle"
  /\ \A b \in AscSlots : b < a => asc[b].pc # "idle"
  /\ LET body == JSONparse(text)
         tempId == TemplateText(Prop(body, "tempId"))
         tempProfile == RedisGet(redis, TempProfileKey(tempId))
     IN asc' = [asc EXCEPT ![a] =
          IF body = ParseError \/ IsNullish(body) THEN AscDone(user, "", 400)
          ELSE IF ~ok THEN AscDone(user, tempId, 500)
          ELSE IF ~Truthy(tempProfile) THEN AscDone(user, tempId, 404)
          ELSE IF user = NoUser THEN AscDone(user, "", 401)
          ELSE [pc |-> "got", user |-> user, tempId |-> tempId,
                tempProfile |-> tempProfile, status |-> 0]]
  /\ resp' = NoResp
  /\ UNCHANGED <<kvsVars, jobVars, tempUsed, staged, su>>

\* auth(), request.json() and redis.get(`temp_profile:${tempId}`);
\* ok = FALSE is a failed redis.get
AssocFrom(a, src, user, text, ok) ==
  /\ asc[a].pc = "idle"
  /\ \A b \in AscSlots : b < a => asc[b].pc # "idle"
  /\ LET body == JSONparse(text)
         tempId == TemplateText(Prop(body, "tempId"))
         tempProfile == RedisGet(redis, TempProfileKey(tempId))
     IN asc' = [asc EXCEPT ![a] =
          IF user = NoUser THEN AscDone(user, "", 401)
          ELSE IF body = ParseError \/ IsNullish(body) THEN AscDone(user, "", 400)
          ELSE IF ~ok THEN AscDone(user, tempId, 500)
          ELSE IF ~Truthy(tempProfile) THEN AscDone(user, tempId, 404)
          ELSE [pc |-> "got", user |-> user, tempId |-> tempId,
                tempProfile |-> tempProfile, status |-> 0]]
  /\ su' = IF src = SignUpPage THEN [su EXCEPT !.pc = "requested", !.slot = a] ELSE su
  /\ resp' = NoResp
  /\ UNCHANGED <<kvsVars, jobVars, tempUsed, staged>>

\* an associate request of any other client
AssocRequest(a, user, text, ok) ==
  AssocFrom(a, External, user, text, ok)

\* an associator that keys the durable profile by the temp id
AssocWriteUnderTempId(a, ok) ==
  /\ asc[a].pc = "got"
  /\ IF ok
     THEN /\ redis' = RedisSet(redis, UserProfileKey(asc[a].tempId),
                               Stringify(asc[a].tempProfile), NoExpiry)
          /\ asc' = [asc EXCEPT ![a].pc = "written"]
     ELSE /\ asc' = [asc EXCEPT ![a] = AscDone(asc[a].user, asc[a].tempId, 500)]
          /\ UNCHANGED redis
  /\ resp' = NoResp
  /\ UNCHANGED <<now, wrote, jobVars, tempUsed, staged, su>>

\* an associator that deletes the staged profile first and writes afterwards
AssocWriteDeletesFirst(a, ok) ==
  /\ asc[a].pc = "got"
  /\ IF ok
     THEN /\ redis' = RedisDel(redis, TempProfileKey(asc[a].tempId))
          /\ asc' = [asc EXCEPT ![a].pc = "written"]
     ELSE /\ asc' = [asc EXCEPT ![a] = AscDone(asc[a].user, asc[a].tempId, 500)]
          /\ UNCHANGED redis
  /\ resp' = NoResp
  /\ UNCHANGED <<now, wrote, jobVars, tempUsed, staged, su>>

\* await redis.set(`user_profile:${userId}`, tempProfile)
AssocWrite(a, ok) ==
  /\ asc[a].pc = "got"
  /\ IF ok
     THEN /\ redis' = RedisSet(redis, UserProfileKey(asc[a].user),
                               Stringify(asc[a].tempProfile), NoExpiry)
          /\ asc' = [asc EXCEPT ![a].pc = "written"]
     ELSE /\ asc' = [asc EXCEPT ![a] = AscDone(asc[a].user, asc[a].tempId, 500)]
          /\ UNCHANGED redis
  /\ resp' = NoResp
  /\ UNCHANGED <<now, wrote, jobVars, tempUsed, staged, su>>

\* an associator that answers 200 without deleting the staged profile
AssocDeleteSkipped(a, ok) ==
  /\ asc[a].pc = "written"
  /\ asc' = [asc EXCEPT ![a] = AscDone(asc[a].user, asc[a].tempId, IF ok THEN 200 ELSE 500)]
  /\ resp' = NoResp
  /\ UNCHANGED <<now, redis, wrote, jobVars, tempUsed, staged, su>>

\* await redis.del(`temp_profile:${tempId}`) and the response
AssocDelete(a, ok) ==
  /\ asc[a].pc = "written"
  /\ IF ok
     THEN /\ redis' = RedisDel(redis, TempProfileKey(asc[a].tempId))
          /\ asc' = [asc EXCEPT ![a] = AscDone(asc[a].user, asc[a].tempId, 200)]
     ELSE /\ asc' = [asc EXCEPT ![a] = AscDone(asc[a].user, asc[a].tempId, 500)]
          /\ UNCHANGED redis
  /\ resp' = NoResp
  /\ UNCHANGED <<now, wrote, jobVars, tempUsed, staged, su>>

(***************************************************************************)
(* Sign-up page: app/sign-up/[[...sign-up]]/page.tsx.                      *)
(***************************************************************************)
\* signUp.status becomes 'complete' for a new identity; tempId is what
\* localStorage holds under 'tempProfileId'
SignUpCompletes(user, tempId) ==
  /\ su.pc = "form"
  /\ su' = [su EXCEPT !.pc = "complete", !.user = user, !.tempId = tempId]
  /\ resp' = NoResp
  /\ UNCHANGED <<kvsVars, jobVars, tempUsed, staged, asc>>

\* the <SignUp> component makes the created session the active one
SessionActivated ==
  /\ su.pc \in {"complete", "requested", "failed"}
  /\ ~su.active
  /\ su' = [su EXCEPT !.active = TRUE]
  /\ resp' = NoResp
  /\ UNCHANGED <<kvsVars, jobVars, tempUsed, staged, asc>>

\* the identity auth() finds in a request of the page
SessionUser == IF su.active THEN su.user ELSE NoUser

\* associateProfile: the fetch of /api/associate-profile
SignUpAssociate(a, ok) ==
  /\ su.pc = "complete"
  /\ su.tempId # NoTempProfileId
  /\ AssocFrom(a, SignUpPage, SessionUser, Stringify(TempIdBody(su.tempId)), ok)

\* associateProfile: the response arrives
SignUpResponse ==
  /\ su.pc = "requested"
  /\ asc[su.slot].pc = "done"
  /\ su' = IF asc[su.slot].status = 200
           THEN [su EXCEPT !.pc = "associated", !.tempId = NoTempProfileId, !.active = TRUE]
           ELSE [su EXCEPT !.pc = "failed"]
  /\ resp' = NoResp
  /\ UNCHANGED <<kvsVars, jobVars, tempUsed, staged, asc>>

(***************************************************************************)
(* Profile reader: GET /api/get-profile.                                   *)
(***************************************************************************)
\* a reader that falls back to the staged profile when there is no durable one
GetProfileOrStaged(db, user, ok) ==
  IF user = NoUser THEN [status |-> 401, body |-> JUndef]
  ELSE IF ~ok THEN [status |-> 500, body |-> JUndef]
  ELSE LET profileData == RedisGet(db, UserProfileKey(user))
           stagedKeys == {k \in DOMAIN db : k[1] = "temp_profile"}
       IN IF Truthy(profileData) THEN [status |-> 200, body |-> profileData]
          ELSE IF stagedKeys # {}
          THEN [status |-> 200, body |-> RedisGet(db, CHOOSE k \in stagedKeys : TRUE)]
          ELSE [status |-> 404, body |-> JUndef]

\* auth() and redis.get(`user_profile:${userId}`); ok = FALSE is a failed redis.get
GetProfileResponse(db, user, ok) ==
  IF user = NoUser THEN [status |-> 401, body |-> JUndef]
  ELSE IF ~ok THEN [status |-> 500, body |-> JUndef]
  ELSE LET profileData == RedisGet(db, UserProfileKey(user))
       IN IF ~Truthy(profileData) THEN [status |-> 404, body |-> JUndef]
          ELSE [status |-> 200, body |-> profileData]

GetProfile(user, ok) ==
  /\ LET r == GetProfileResponse(redis, user, ok)
     IN resp' = [op |-> "profile", variant |-> "redis", id |-> user,
                 fault |-> user # NoUser /\ ~ok, status |-> r.status, body |-> r.body]
  /\ UNCHANGED <<kvsVars, jobVars, profVars>>

(***************************************************************************)
(* trigger-workflow: the dispatcher.  The direct variant queries the       *)
(* completion API once per prompt and posts the answers to the callback    *)
(* URL itself; the delegated variant hands the job to the n8n webhook.     *)
(***************************************************************************)
\* the eight entries of prompts, by name
PromptNames == <<"p1", "p2", "p3", "p4", "p5", "p6", "p7", "p8">>
Prompts == [i \in 1..NumPrompts |-> JStr(PromptNames[i])]
\* data.choices[0].message.content of the completion for prompt i: a text
\* about that prompt, or an empty one
AnswerNames == <<"a1", "a2", "a3", "a4", "a5", "a6", "a7", "a8">>
AnswersTo(i) == {JStr(AnswerNames[i]), JStr("")}
Answers == UNION {AnswersTo(i) : i \in 1..NumPrompts}
Domain == JStr("https://acme.com")
DispatchTexts == {Stringify(JObj(<<Pair("domain", Domain)>>)), Stringify(JObj(<<>>)), BadText}

\* the bodies the workflow posts: a well-formed one and one with no results
EngineTexts == {Stringify(P1), Stringify(Body(JStr("https://acme.com"), JArr(<<>>)))}

\* NextResponse.json({ requestId })
IdBody(id) == JObj(<<Pair("requestId", JStr(id))>>)

\* what the catch block answers with: the delegated handler only logs and
\* returns no response, which the framework answers with a 500 of its own
ErrorBody(variant) ==
  CASE variant = "direct" -> JObj(<<Pair("error", JStr("Failed to process request"))>>)
    [] variant = "delegated_early" ->
         JObj(<<Pair("error", JStr("Failed to trigger n8n workflow"))>>)
    [] variant = NoIdVariant -> JObj(<<Pair("error", JStr("Failed to send data to n8n"))>>)
    [] OTHER -> JUndef

\* NextResponse.json({ message: 'Data sent to n8n successfully' })
MessageBody == JObj(<<Pair("message", JStr("Data sent to n8n successfully"))>>)

DispDone(variant, status) ==
  [pc |-> "done", variant |-> variant, id |-> "", domain |-> JUndef, answers |-> <<>>,
   status |-> status, body |-> IF status = 200 THEN JUndef ELSE ErrorBody(variant)]

\* const { domain } = await req.json(); const requestId = uuidv4(); and the
\* requests the handler sends before its first await on a reply
DispatchRequest(d, variant, text, c) ==
  /\ disp[d].pc = "idle"
  /\ \A q \in DispSlots : q < d => disp[q].pc # "idle"
  /\ LET body == JSONparse(text)
     IN IF body = ParseError \/ IsNullish(body)
        THEN /\ disp' = [disp EXCEPT ![d] = DispDone(variant, 500)]
             /\ UNCHANGED corrUsed
        ELSE IF variant = NoIdVariant
        THEN /\ disp' = [disp EXCEPT ![d] =
                           [pc |-> "webhook", variant |-> variant, id |-> "",
                            domain |-> Prop(body, "domain"), answers |-> <<>>,
                            status |-> 0, body |-> JUndef]]
             /\ UNCHANGED corrUsed
        ELSE /\ c \in CorrIds \ corrUsed
             /\ corrUsed' = corrUsed \cup {c}
             /\ disp' = [disp EXCEPT ![d] =
                           [pc |-> IF variant = "direct" THEN "query" ELSE "webhook",
                            variant |-> variant, id |-> c, domain |-> Prop(body, "domain"),
                            answers |-> IF variant = "direct"
                                        THEN [i \in 1..NumPrompts |-> Pending]
                                        ELSE <<>>,
                            status |-> 0, body |-> JUndef]]
  /\ resp' = NoResp
  /\ UNCHANGED <<kvsVars, results, land, cli, deployed, rcv, accepted, profVars>>

\* JSON.stringify({ results, domain }): a member whose value is undefined is left out
CallbackBody(domain, answers) ==
  LET rs == JArr([i \in 1..Len(answers) |-> Res(Prompts[i], answers[i])])
  IN IF domain = JUndef
     THEN JObj(<<Pair("results", rs)>>)
     ELSE JObj(<<Pair("results", rs), Pair("domain", domain)>>)

\* a fan-out that collects the answers in the order the queries complete
QueryAnswerInCompletionOrder(d, i, ok, a) ==
  /\ disp[d].pc = "query"
  /\ disp[d].answers[i] = Pending
  /\ IF ok
     THEN LET first == CHOOSE j \in 1..NumPrompts :
                         /\ disp[d].answers[j] = Pending
                         /\ \A k \in 1..(j - 1) : disp[d].answers[k] # Pending
              as == [disp[d].answers EXCEPT ![first] = a]
          IN disp' = [disp EXCEPT ![d].answers = as,
                                  ![d].pc = IF \A j \in 1..NumPrompts : as[j] # Pending
                                            THEN "callback" ELSE "query"]
     ELSE disp' = [disp EXCEPT ![d] = DispDone("direct", 500)]
  /\ resp' = NoResp
  /\ UNCHANGED <<kvsVars, results, land, cli, deployed, rcv, accepted, profVars, corrUsed>>

\* a dispatcher that waits for every query to settle and goes on without the
\* answers of those that failed (Promise.allSettled)
QueryAnswerSettled(d, i, ok, a) ==
  /\ disp[d].pc = "query"
  /\ disp[d].answers[i] = Pending
  /\ LET as == [disp[d].answers EXCEPT ![i] = IF ok THEN a ELSE JNull]
     IN disp' = [disp EXCEPT ![d].answers = as,
                             ![d].pc = IF \A j \in 1..NumPrompts : as[j] # Pending
                                       THEN "callback" ELSE "query"]
  /\ resp' = NoResp
  /\ UNCHANGED <<kvsVars, results, land, cli, deployed, rcv, accepted, profVars, corrUsed>>

\* one sendPromptToPerplexity settles; Promise.all rejects with the first
\* query that throws and resolves when the last one has answered, and the
\* handler then posts the callback
QueryAnswer(d, i, ok, a) ==
  /\ disp[d].pc = "query"
  /\ disp[d].answers[i] = Pending
  /\ IF ok
     THEN LET as == [disp[d].answers EXCEPT ![i] = a]
          IN disp' = [disp EXCEPT ![d].answers = as,
                                  ![d].pc = IF \A j \in 1..NumPrompts : as[j] # Pending
                                            THEN "callback" ELSE "query"]
     ELSE disp' = [disp EXCEPT ![d] = DispDone("direct", 500)]
  /\ resp' = NoResp
  /\ UNCHANGED <<kvsVars, results, land, cli, deployed, rcv, accepted, profVars, corrUsed>>

\* the receiver takes the callback request of dispatcher d, which carries
\* x-request-id and no x-api-key
ReceiveCallback(r, d) ==
  /\ disp[d].pc = "callback"
  /\ \A q \in RcvSlots : rcv[q].src # d
  /\ ReceiveFrom(r, d, NoHeader, disp[d].id,
                 Stringify(CallbackBody(disp[d].domain, disp[d].answers)))

\* the callback response arrives: { requestId } when it is ok, otherwise the
\* catch block's 500
\* a dispatcher that does not look at callbackResponse.ok
DispatchReturnUnchecked(d) ==
  /\ disp[d].pc = "callback"
  /\ \E r \in RcvSlots :
       /\ rcv[r].src = d /\ rcv[r].pc = "done"
       /\ disp' = [disp EXCEPT ![d] =
                     [DispDone("direct", 200) EXCEPT !.id = disp[d].id,
                                                     !.body = IdBody(disp[d].id)]]
  /\ resp' = NoResp
  /\ UNCHANGED <<kvsVars, results, land, cli, deployed, rcv, accepted, profVars, corrUsed>>

DispatchReturn(d) ==
  /\ disp[d].pc = "callback"
  /\ \E r \in RcvSlots :
       /\ rcv[r].src = d /\ rcv[r].pc = "done"
       /\ disp' = [disp EXCEPT ![d] =
                     IF rcv[r].status = 200
                     THEN [DispDone("direct", 200) EXCEPT !.id = disp[d].id,
                                                          !.body = IdBody(disp[d].id)]
                     ELSE DispDone("direct", 500)]
  /\ resp' = NoResp
  /\ UNCHANGED <<kvsVars, results, land, cli, deployed, rcv, accepted, profVars, corrUsed>>

\* fetch(CALLBACK_URL) rejects
CallbackFails(d) ==
  /\ disp[d].pc = "callback"
  /\ disp' = [disp EXCEPT ![d] = DispDone("direct", 500)]
  /\ resp' = NoResp
  /\ UNCHANGED <<kvsVars, results, land, cli, deployed, rcv, accepted, profVars, corrUsed>>

\* the n8n webhook answers: { requestId } when it is ok; otherwise the catch
\* block logs and the handler returns no response, which the framework
\* answers with 500
WebhookAck(d, ok) ==
  /\ disp[d].pc = "webhook"
  /\ disp' = [disp EXCEPT ![d] =
                IF ok THEN [disp[d] EXCEPT !.pc = "done", !.status = 200,
                                           !.body = IF disp[d].variant = NoIdVariant
                                                    THEN MessageBody
                                                    ELSE IdBody(disp[d].id)]
                ELSE DispDone(disp[d].variant, 500)]
  /\ resp' = NoResp
  /\ UNCHANGED <<kvsVars, results, land, cli, deployed, rcv, accepted, profVars, corrUsed>>

\* the workflow the webhook started posts to the callbackUrl it was given,
\* with the requestId it was given
EngineCallback(r, d, apiKey, text) ==
  /\ disp[d].variant \in {"delegated", "delegated_early"} /\ disp[d].id # ""
  /\ ReceiveFrom(r, External, apiKey, disp[d].id, text)

(***************************************************************************)
(* Landing page: handleSubmit / triggerWorkflow, and the way to the        *)
(* profile page.                                                           *)
(***************************************************************************)
\* a trigger-workflow request of the page is still unanswered
LandWaiting == \E d \in DispSlots : disp[d].pc # "idle" /\ d \notin land.handled

\* handleSubmit: fetch('/api/trigger-workflow')
LandSubmit(d, variant, text, c) ==
  /\ land.page = "landing"
  /\ ~LandWaiting
  /\ DispatchRequest(d, variant, text, c)

\* localStorage.setItem('requestId', requestId) stores String(requestId)
StoredItem(x) == TemplateText(x)

\* handleSubmit: the response arrives
LandResponse(d) ==
  /\ disp[d].pc = "done"
  /\ d \notin land.handled
  /\ land' = IF disp[d].status = 200
             THEN [page |-> "profile",
                   requestId |-> StoredItem(Prop(disp[d].body, "requestId")),
                   handled |-> land.handled \cup {d},
                   lastOk |-> disp[d].id]
             ELSE [land EXCEPT !.handled = land.handled \cup {d}]
  /\ resp' = NoResp
  /\ UNCHANGED <<kvsVars, results, cli, deployed, rcv, accepted, profVars, dispVars>>

\* the visitor moves between the two pages
LandNavigate(page) ==
  /\ ~LandWaiting
  /\ cli.pc = "idle"
  /\ land.page # page
  /\ land' = [land EXCEPT !.page = page]
  /\ resp' = NoResp
  /\ UNCHANGED <<kvsVars, results, cli, deployed, rcv, accepted, profVars, dispVars>>

\* the profile page mounts: localStorage.getItem('requestId')
ProfileOpens(api) ==
  /\ land.page = "profile"
  /\ ClientStart(land.requestId, api)

(***************************************************************************)
(* Specifications.                                                         *)
(***************************************************************************)
ReceiveBy(slots) ==
  \/ \E r \in slots, apiKey \in ApiKeys, reqId \in HeaderIds, text \in BodyTexts :
       ReceiveRequest(r, apiKey, reqId, text)
  \/ \E r \in slots, ok \in BOOLEAN : ReceiveStore(r, ok)

Receive == ReceiveBy(RcvSlots)

Poll ==
  \/ \E initOk \in BOOLEAN, ok \in BOOLEAN, reqId \in HeaderIds :
       PollRedis(initOk, ok, reqId)
  \/ \E reqId \in CorrIds : PollMemory(reqId)

AssociateBy(slots) ==
  \/ \E a \in slots, user \in Users \cup {NoUser}, text \in AssocTexts, ok \in BOOLEAN :
       AssocRequest(a, user, text, ok)
  \/ \E a \in slots, ok \in BOOLEAN : AssocWrite(a, ok)
  \/ \E a \in slots, ok \in BOOLEAN : AssocDelete(a, ok)

\* the landing page with the dispatchers it calls and the profile page it
\* leads to
Landing ==
  \/ \E d \in DispSlots, variant \in DispVariants \cup {NoIdVariant},
        text \in DispatchTexts, c \in CorrIds : LandSubmit(d, variant, text, c)
  \/ \E d \in DispSlots : LandResponse(d)
  \/ \E page \in {"landing", "profile"} : LandNavigate(page)
  \/ \E api \in PollVariants : ProfileOpens(api)

\* the sign-up page with the associate request it sends
SignUp ==
  \/ \E user \in Users, tempId \in TempIds \cup {NoTempProfileId} : SignUpCompletes(user, tempId)
  \/ SessionActivated
  \/ \E ok \in BOOLEAN : SignUpAssociate(1, ok)
  \/ \E ok \in BOOLEAN : AssocWrite(1, ok)
  \/ \E ok \in BOOLEAN : AssocDelete(1, ok)
  \/ SignUpResponse

Associate == AssociateBy(AscSlots)

StageOf(ids) == \E text \in ProfileTexts, t \in ids, ok \in BOOLEAN : Stage(text, t, ok)

StageAny == StageOf(TempIds)

Dispatch ==
  \/ \E d \in DispSlots, variant \in DispVariants, text \in DispatchTexts, c \in CorrIds :
       DispatchRequest(d, variant, text, c)
  \/ \E d \in DispSlots, i \in 1..NumPrompts, ok \in BOOLEAN : \E a \in AnswersTo(i) :
       QueryAnswer(d, i, ok, a)
  \/ \E d \in DispSlots : DispatchReturn(d)
  \/ \E d \in DispSlots : CallbackFails(d)
  \/ \E d \in DispSlots, ok \in BOOLEAN : WebhookAck(d, ok)

\* the direct fan-out dispatcher with the callbacks it sends
FanOut ==
  \/ \E d \in DispSlots, text \in DispatchTexts, c \in CorrIds :
       DispatchRequest(d, "direct", text, c)
  \/ \E d \in DispSlots, i \in 1..NumPrompts, ok \in BOOLEAN : \E a \in AnswersTo(i) :
       QueryAnswer(d, i, ok, a)
  \/ \E d \in DispSlots : DispatchReturn(d)
  \/ \E d \in DispSlots : CallbackFails(d)
  \/ \E r \in RcvSlots, d \in DispSlots : ReceiveCallback(r, d)
  \/ \E r \in RcvSlots, ok \in BOOLEAN : ReceiveStore(r, ok)

Client ==
  \/ \E reqId \in CorrIds \cup {NoHeader}, api \in PollVariants : ClientStart(reqId, api)
  \/ \E initOk \in BOOLEAN, ok \in BOOLEAN, net \in BOOLEAN : ClientFetch(initOk, ok, net)
  \/ ClientTimer

Callbacks ==
  \/ \E r \in RcvSlots, d \in DispSlots : ReceiveCallback(r, d)
  \/ \E r \in RcvSlots, d \in DispSlots, apiKey \in ApiKeys, text \in EngineTexts :
       EngineCallback(r, d, apiKey, text)
  \/ \E r \in RcvSlots, ok \in BOOLEAN : ReceiveStore(r, ok)

\* the callback receivers alone
SpecReceive == Init /\ [][Receive \/ Tick]_vars
\* the callback receivers and the pollers
SpecPoll == Init /\ [][Receive \/ Poll \/ Tick]_vars
\* the deployment whose receive-results is the validated handler
InitValidated == Init /\ deployed = "validated"
\* the profile stager and the associator
SpecProfile == InitValidated /\ [][StageAny \/ Associate \/ Tick]_vars
\* the profile page polling while one callback arrives
SpecClient == Init /\ [][ReceiveBy({1}) \/ Client]_vars
\* the same, with the browser running what it has scheduled: a pending fetch
\* settles and a pending timer fires
SpecClientFair == SpecClient /\ WF_vars(Client)
\* every operation on the store, side by side
SpecFrame ==
  /\ InitValidated
  /\ [][ \/ ReceiveBy({1})
         \/ \E ok \in BOOLEAN, reqId \in CorrIds : PollRedis(TRUE, ok, reqId)
         \/ StageOf({"t1"})
         \/ AssociateBy({1})
         \/ \E user \in Users \cup {NoUser}, ok \in BOOLEAN : GetProfile(user, ok) ]_vars
\* the two readers beside one callback, one staged profile and one associate
\* request, over the lifetime of their keys
SpecReads ==
  /\ InitValidated
  /\ [][ \/ ReceiveBy({1})
         \/ \E initOk, ok \in BOOLEAN, reqId \in CorrIds : PollRedis(initOk, ok, reqId)
         \/ StageOf({"t1"})
         \/ AssociateBy({1})
         \/ \E user \in Users \cup {NoUser}, ok \in BOOLEAN : GetProfile(user, ok)
         \/ Tick ]_vars
\* the sign-up page, the stager and the associator over the lifetime of a
\* staged profile
SpecSignUp == InitValidated /\ [][StageAny \/ SignUp \/ Tick]_vars
\* the landing page, the dispatchers and the callbacks their jobs lead to
SpecLanding ==
  /\ InitValidated
  /\ [][ \/ Landing
         \/ \E d \in DispSlots, i \in 1..NumPrompts, ok \in BOOLEAN : \E a \in AnswersTo(i) :
              QueryAnswer(d, i, ok, a)
         \/ \E d \in DispSlots : DispatchReturn(d)
         \/ \E d \in DispSlots : CallbackFails(d)
         \/ \E d \in DispSlots, ok \in BOOLEAN : WebhookAck(d, ok)
         \/ \E d \in DispSlots : ReceiveCallback(1, d)
         \/ \E ok \in BOOLEAN : ReceiveStore(1, ok) ]_vars
\* one direct fan-out dispatch with its callback and the Redis-backed poller,
\* over the lifetime of the result
SpecFanOutPoll ==
  /\ Init
  /\ [][ \/ \E text \in DispatchTexts, c \in CorrIds : DispatchRequest(1, "direct", text, c)
         \/ \E i \in 1..NumPrompts, ok \in BOOLEAN :
              \E a \in AnswersTo(i) : QueryAnswer(1, i, ok, a)
         \/ DispatchReturn(1)
         \/ CallbackFails(1)
         \/ ReceiveCallback(1, 1)
         \/ \E ok \in BOOLEAN : ReceiveStore(1, ok)
         \/ \E ok \in BOOLEAN, reqId \in CorrIds : PollRedis(TRUE, ok, reqId)
         \/ Tick ]_vars
\* the direct fan-out dispatchers alone
SpecFanOut == Init /\ [][FanOut]_vars
\* the dispatchers and the callbacks their jobs lead to
SpecDispatch == Init /\ [][Dispatch \/ Callbacks]_vars
\* one callback, one staged profile and one associate request, with the
\* Redis-backed poller, over the lifetime of their keys
SpecExpiry ==
  /\ InitValidated
  /\ [][ \/ ReceiveBy({1})
         \/ \E ok \in BOOLEAN, reqId \in CorrIds : PollRedis(TRUE, ok, reqId)
         \/ StageOf({"t1"})
         \/ AssociateBy({1})
         \/ Tick ]_vars

(***************************************************************************)
(* Properties.                                                             *)
(***************************************************************************)
Present(key) == key \in DOMAIN redis
PolledOk(c) == resp.op = "poll" /\ resp.id = c /\ ~resp.fault

\* C1: when the latest callback accepted for a correlation id c carried a
\* well-formed payload P and result:c has not expired, a poll of c that reads
\* the store answers 200 with exactly P: the same domain and the same ordered
\* sequence of {prompt, answer} pairs.
C1_PollReturnsAcceptedPayload ==
  \A c \in CorrIds :
    (PolledOk(c) /\ resp.variant = "redis" /\ Present(ResultKey(c)) /\ ValidBody(accepted[c]))
      => (resp.status = 200 /\ resp.body = accepted[c])

C1_Witness ==
  /\ deployed = "validated"
  /\ resp.op = "poll" /\ resp.status = 200 /\ resp.id \in CorrIds
  /\ resp.body = P1 /\ accepted[resp.id] = P1

\* C2: a poll of a correlation id for which no callback has been accepted, be
\* the id unknown or its callback still in flight, answers 404 without a
\* payload, in both poll variants.
C2_PollUnknownIsNotFound ==
  \A c \in CorrIds :
    (PolledOk(c) /\ accepted[c] = JUndef) => (resp.status = 404 /\ resp.body = JUndef)

C2_Witness ==
  /\ resp.op = "poll" /\ resp.variant = "redis" /\ resp.status = 404
  /\ \E r \in RcvSlots : rcv[r].pc = "set" /\ rcv[r].id = resp.id

\* C3: a callback request without a correlation id, or whose body is not a
\* well-formed payload (results a non-empty sequence of non-empty string
\* prompts and answers, domain a non-empty string), is answered with the
\* validation error 400 and writes nothing to the store.
WellFormedRequest(reqId, text) == reqId \in CorrIds /\ ValidBody(JSONparse(text))

C3_ReceiveRejectsMalformed ==
  [][\A r \in RcvSlots, reqId \in HeaderIds, text \in BodyTexts :
       (ReceiveRequest(r, N8N_API_KEY, reqId, text) /\ ~WellFormedRequest(reqId, text))
         => (rcv'[r].pc = "done" /\ rcv'[r].status = 400 /\ redis' = redis)]_vars

\* C4: the value stored under result:c is, in full, the body of one of the
\* callbacks accepted for c, and it is the body of the callback whose write
\* was applied last.
C4_LastWriteWinsInFull ==
  \A c \in CorrIds :
    Present(ResultKey(c)) =>
      /\ \E r \in RcvSlots :
           /\ rcv[r].pc = "done" /\ rcv[r].status = 200 /\ rcv[r].id = c
           /\ redis[ResultKey(c)].val = Stringify(rcv[r].body)
      /\ redis[ResultKey(c)].val = Stringify(accepted[c])

C4_Witness ==
  /\ deployed = "validated"
  /\ rcv[1].status = 200 /\ rcv[2].status = 200
  /\ rcv[1].id = rcv[2].id /\ rcv[1].body # rcv[2].body
  /\ Present(ResultKey(rcv[1].id))
  /\ redis[ResultKey(rcv[1].id)].val = Stringify(rcv[1].body)

\* C5: an associate request of an authenticated identity for a staged, unexpired
\* temp id whose store calls succeed reads the staged profile p, writes exactly p
\* to user_profile:{identity} without expiry, deletes temp_profile:{tempId} and
\* answers 200; unless another associate request for the same identity
\* interleaves, user_profile:{identity} is p when it answers.
OnlyAssociateOf(a) ==
  \A b \in AscSlots \ {a} : asc[b].pc = "idle" \/ asc[b].user # asc[a].user

StoredProfile(db, user) == RedisGet(db, UserProfileKey(user))

C5_StageThenAssociate ==
  [][ /\ \A a \in AscSlots, u \in Users, t \in TempIds :
           (AssocRequest(a, u, Stringify(TempIdBody(t)), TRUE) /\ Present(TempProfileKey(t)))
             => (asc'[a].pc = "got" /\ asc'[a].tempProfile = staged[t])
      /\ \A a \in AscSlots :
           AssocWrite(a, TRUE)
             => /\ asc'[a].pc = "written"
                /\ StoredProfile(redis', asc[a].user) = staged[asc[a].tempId]
                /\ UserProfileKey(asc[a].user) \in DOMAIN redis'
                /\ redis'[UserProfileKey(asc[a].user)].exp = NoExpiry
      /\ \A a \in AscSlots :
           AssocDelete(a, TRUE)
             => /\ asc'[a].pc = "done" /\ asc'[a].status = 200
                /\ TempProfileKey(asc[a].tempId) \notin DOMAIN redis'
                /\ OnlyAssociateOf(a)
                     => StoredProfile(redis', asc[a].user) = staged[asc[a].tempId] ]_vars

C5_Witness ==
  \E a \in AscSlots :
    /\ asc[a].pc = "done" /\ asc[a].status = 200 /\ asc[a].tempId \in TempIds
    /\ staged[asc[a].tempId] = Profile("Acme", "a@acme.com")
    /\ ~Present(TempProfileKey(asc[a].tempId))
    /\ Present(UserProfileKey(asc[a].user))
    /\ StoredProfile(redis, asc[a].user) = staged[asc[a].tempId]

\* C6: an associate request that reads the store after an earlier associate
\* request for the same temp id answered 200 is answered 404 and changes no key
\* of the store.
C6_SecondAssociateNotFound ==
  [][\A a \in AscSlots, u \in Users, t \in TempIds :
       ( /\ AssocRequest(a, u, Stringify(TempIdBody(t)), TRUE)
         /\ \E b \in AscSlots : asc[b].pc = "done" /\ asc[b].status = 200 /\ asc[b].tempId = t )
         => (asc'[a].pc = "done" /\ asc'[a].status = 404 /\ redis' = redis)]_vars

C6_Witness ==
  /\ asc[1].pc = "done" /\ asc[1].status = 200
  /\ asc[2].pc = "done" /\ asc[2].status = 404
  /\ asc[1].tempId = asc[2].tempId /\ asc[1].tempId \in TempIds
  /\ now < wrote[TempProfileKey(asc[1].tempId)] + TTL
  /\ Present(UserProfileKey(asc[1].user))

\* C7: a result:c or temp_profile:t key is absent from 3600 seconds after the
\* latest write a handler answered 200 to, whether or not it was read; until
\* then result:c is present; a poll of c, or an associate request for t, that
\* reads the store from then on is answered 404.
Lapsed(key, t) == key \in DOMAIN wrote /\ t >= wrote[key] + TTL

C7_KeysLapseAfterTTL ==
  [][ /\ \A k \in DOMAIN wrote' : Lapsed(k, now)' => k \notin DOMAIN redis'
      /\ \A c \in CorrIds :
           (ResultKey(c) \in DOMAIN wrote' /\ ~Lapsed(ResultKey(c), now)')
             => ResultKey(c) \in DOMAIN redis'
      /\ \A c \in CorrIds :
           (PollRedis(TRUE, TRUE, c) /\ Lapsed(ResultKey(c), now)) => resp'.status = 404
      /\ \A a \in AscSlots, u \in Users, t \in TempIds :
           (AssocRequest(a, u, Stringify(TempIdBody(t)), TRUE) /\ Lapsed(TempProfileKey(t), now))
             => (asc'[a].pc = "done" /\ asc'[a].status = 404) ]_vars

C7_Witness ==
  /\ \E c \in CorrIds : PolledOk(c) /\ resp.status = 404 /\ Lapsed(ResultKey(c), now)
  /\ \E a \in AscSlots :
       /\ asc[a].pc = "done" /\ asc[a].status = 404 /\ asc[a].tempId \in TempIds
       /\ Lapsed(TempProfileKey(asc[a].tempId), now)

\* C8: a callback request that reaches redis.set presented an x-api-key equal
\* to the configured secret; a request whose x-api-key is missing or wrong is
\* answered 401 and leaves the store as it was, whatever its body and
\* correlation id.
C8_ReceiveRequiresSecret ==
  [][\A r \in RcvSlots, apiKey \in ApiKeys, reqId \in HeaderIds, text \in BodyTexts :
       (ReceiveRequest(r, apiKey, reqId, text) /\ apiKey # N8N_API_KEY)
         => (rcv'[r].pc = "done" /\ rcv'[r].status = 401 /\ redis' = redis)]_vars

\* C9: receive answers 200 exactly when its redis.set stored the payload, 400
\* when the correlation id is missing or the body is invalid, and 500 when
\* its redis.set fails.
C9_ReceiveStatusCodes ==
  [][\A r \in RcvSlots :
       /\ \A reqId \in HeaderIds, text \in BodyTexts :
            (ReceiveRequest(r, N8N_API_KEY, reqId, text) /\ ~WellFormedRequest(reqId, text))
              => rcv'[r].status = 400
       /\ ReceiveStore(r, FALSE) => rcv'[r].status = 500
       /\ ReceiveStore(r, TRUE) => (rcv'[r].status = 200 /\ ResultKey(rcv[r].id) \in DOMAIN redis')
       /\ (rcv'[r].status = 200 /\ rcv[r].status # 200) => ReceiveStore(r, TRUE)]_vars

\* C10: a dispatcher that has allocated its correlation id, and whose
\* enrichment is outstanding (a query unanswered, or no callback for the id
\* stored yet), can answer its caller with the id there and then, in the
\* direct as in the delegated variant.
Outstanding(d) ==
  /\ disp[d].pc \in {"query", "callback", "webhook"}
  /\ accepted[disp[d].id] = JUndef

RespondsWithId(d) ==
  /\ DispatchReturn(d) \/ WebhookAck(d, TRUE)
  /\ disp'[d].status = 200

C10_DispatchReturnsWithoutWaiting ==
  \A d \in DispSlots : Outstanding(d) => ENABLED RespondsWithId(d)

\* C11: when the webhook call of a delegated dispatcher fails (it rejects or
\* answers non-2xx), the dispatcher answers with a non-2xx status and a body
\* that carries an error description and no correlation id, and no result
\* key exists for the id it had allocated.
DescribesError(body) == Truthy(Prop(body, "error")) /\ IsString(Prop(body, "error"))

C11_DispatchFailureIsReported ==
  [][\A d \in DispSlots :
       WebhookAck(d, FALSE)
         => /\ disp'[d].pc = "done" /\ disp'[d].status \notin 200..299
            /\ DescribesError(disp'[d].body)
            /\ Prop(disp'[d].body, "requestId") = JUndef
            /\ ResultKey(disp[d].id) \notin DOMAIN redis']_vars

\* C12: in the direct fan-out a failed completion query ends the request with
\* 500, with no callback sent and nothing stored under result:id; a callback
\* is sent only when every query has answered, and a payload a direct
\* dispatcher got stored holds, for each of the N prompts in order, that
\* prompt with a string answer.
CompleteResults(body) ==
  LET rs == Prop(body, "results")
  IN /\ IsArray(rs) /\ Len(rs.v) = NumPrompts
     /\ \A i \in 1..NumPrompts :
          Prop(rs.v[i], "prompt") = Prompts[i] /\ IsString(Prop(rs.v[i], "answer"))

C12_DirectFanOutAllOrNothing ==
  [][ /\ \A d \in DispSlots, i \in 1..NumPrompts, a \in Answers :
           QueryAnswer(d, i, FALSE, a)
             => /\ disp'[d].pc = "done" /\ disp'[d].status = 500
                /\ \A r \in RcvSlots : rcv'[r].src # d
                /\ ResultKey(disp[d].id) \notin DOMAIN redis'
      /\ \A d \in DispSlots, r \in RcvSlots :
           ReceiveCallback(r, d) => \A i \in 1..NumPrompts : IsString(disp[d].answers[i])
      /\ \A r \in RcvSlots :
           (rcv'[r].src \in DispSlots /\ rcv'[r].status = 200)
             => CompleteResults(RedisGet(redis', ResultKey(rcv'[r].id))) ]_vars

C12_Witness ==
  /\ \E d \in DispSlots, r \in RcvSlots :
       /\ disp[d].pc = "done" /\ disp[d].status = 200 /\ disp[d].variant = "direct"
       /\ rcv[r].src = d /\ rcv[r].status = 200
       /\ CompleteResults(RedisGet(redis, ResultKey(disp[d].id)))
  /\ \E d \in DispSlots :
       /\ disp[d].pc = "done" /\ disp[d].status = 500 /\ disp[d].variant = "direct"
       /\ \A r \in RcvSlots : rcv[r].src # d
       /\ \E c \in corrUsed : ResultKey(c) \notin DOMAIN redis

\* C13: a dispatch request whose domain is missing, empty or not an absolute
\* URL is rejected with a non-2xx status: it allocates no correlation id and
\* starts no query and no webhook call.
\* new URL(x) succeeds, among the domain values of the model
IsAbsoluteUrl(x) == IsString(x) /\ x = Domain

C13_DispatchRejectsBadDomain ==
  [][\A d \in DispSlots, variant \in DispVariants, text \in DispatchTexts, c \in CorrIds :
       (DispatchRequest(d, variant, text, c)
          /\ ~IsAbsoluteUrl(Prop(JSONparse(text), "domain")))
         => /\ disp'[d].pc = "done" /\ disp'[d].status \notin 200..299
            /\ corrUsed' = corrUsed]_vars

\* C14: a poll of c by the Redis-backed GET answers 404 only when result:c is
\* absent; a failed store call, or a stored value whose results are missing,
\* not an array or empty, or whose domain is missing, is answered 500, never
\* 404 and never 200.
ShapeOk(x) ==
  /\ IsArray(Prop(x, "results")) /\ Len(Prop(x, "results").v) # 0
  /\ Truthy(Prop(x, "domain"))

C14_PollNotFoundOnlyWhenAbsent ==
  (resp.op = "poll" /\ resp.variant = "redis" /\ resp.id \in CorrIds)
    => /\ resp.status = 404 => (~resp.fault /\ ~Present(ResultKey(resp.id)))
       /\ resp.fault => resp.status = 500
       /\ (~resp.fault /\ Present(ResultKey(resp.id))
             /\ ~ShapeOk(RedisGet(redis, ResultKey(resp.id))))
            => resp.status = 500

\* C15: the page schedules another poll exactly when its fetch was answered
\* 404; after any other non-2xx answer, or a fetch that rejects, it shows the
\* error and polls no more: a page that has stopped stays as it is, and only
\* the timer of a 404 starts another fetch.
C15_RetryOnlyOnNotFound ==
  [][ /\ \A initOk \in BOOLEAN, ok \in BOOLEAN, net \in BOOLEAN :
           ClientFetch(initOk, ok, net)
             => /\ cli'.pc = "sleep" <=> (net /\ resp'.status = 404)
                /\ (~net \/ resp'.status \notin (200..299) \cup {404}) => cli'.pc = "error"
      /\ cli.pc \in ClientStopped => cli' = cli
      /\ (cli.pc # "fetch" /\ cli'.pc = "fetch") => cli.pc \in {"idle", "sleep"} ]_vars

C15_Witness ==
  /\ cli.pc = "error"
  /\ resp.op = "poll" /\ resp.status = 500 /\ resp.id = cli.id
  /\ Present(ResultKey(cli.id))

\* C16: a page that has started polling eventually stops, whether or not a
\* callback for its id is ever accepted.
C16_PollLoopStops == (cli.pc = "fetch") ~> (cli.pc \in ClientStopped)

\* C17: an associate request without an authenticated identity is answered
\* 401 whatever its body, whatever the store holds and whether or not the
\* store can be read, and it leaves every key as it was; the request ends
\* there, so it writes and deletes nothing later either.
C17_AssociateRequiresIdentity ==
  [][\A a \in AscSlots, text \in AssocTexts, ok \in BOOLEAN :
       AssocRequest(a, NoUser, text, ok)
         => (asc'[a] = AscDone(NoUser, "", 401) /\ redis' = redis /\ wrote' = wrote)]_vars

C17_Witness ==
  \E a \in AscSlots, t \in TempIds :
    /\ asc[a].pc = "done" /\ asc[a].status = 401 /\ asc[a].user = NoUser
    /\ Present(TempProfileKey(t)) /\ RedisGet(redis, TempProfileKey(t)) = staged[t]
    /\ \A u \in Users : ~Present(UserProfileKey(u))

\* C18: user_profile:u has no expiry, and once no associate request of u is
\* in flight it holds, in full, the staged value of an associate request of
\* u that was answered 200 (the most recent one), and is absent when there
\* was none.
Quiescent(u) == \A a \in AscSlots : asc[a].user = u => asc[a].pc = "done"
MovedBy(u) ==
  {staged[asc[a].tempId] : a \in {b \in AscSlots : asc[b].user = u /\ asc[b].status = 200}}

C18_DurableProfileIsLastMoved ==
  \A u \in Users :
    /\ Present(UserProfileKey(u)) => redis[UserProfileKey(u)].exp = NoExpiry
    /\ Quiescent(u) =>
         IF MovedBy(u) = {} THEN ~Present(UserProfileKey(u))
         ELSE StoredProfile(redis, u) \in MovedBy(u)

\* C19: of the associate requests for one tempId at most one is answered
\* 200, and at most one identity gets the staged profile written to its
\* user_profile key.
SuccessesOf(t) == {a \in AscSlots : asc[a].tempId = t /\ asc[a].status = 200}
WritersOf(t) ==
  {asc[a].user : a \in {b \in AscSlots : asc[b].tempId = t
                                        /\ (asc[b].pc = "written" \/ asc[b].status = 200)}}

C19_MoveIsAtomic ==
  \A t \in TempIds : Cardinality(SuccessesOf(t)) <= 1 /\ Cardinality(WritersOf(t)) <= 1

\* C20 as claimed: once result:c is present its value never changes while it
\* stays present.
C20_PayloadWrittenOnce ==
  [][\A c \in CorrIds :
       (Present(ResultKey(c)) /\ ResultKey(c) \in DOMAIN redis')
         => redis'[ResultKey(c)].val = redis[ResultKey(c)].val]_vars

\* C20 as amended: every accepted callback for c replaces the value of
\* result:c in full with its own body; the value changes in no other step,
\* and the key goes away only when its retention time has passed; two polls
\* of c with no step between them return the same payload.
StoredText(db, c) == IF ResultKey(c) \in DOMAIN db THEN db[ResultKey(c)].val ELSE <<>>

C20_PayloadReplacedOnlyByCallback ==
  [][\A c \in CorrIds :
       /\ \A r \in RcvSlots :
            (ReceiveStore(r, TRUE) /\ rcv[r].id = c)
              => StoredText(redis', c) = Stringify(rcv[r].body)
       /\ StoredText(redis', c) # StoredText(redis, c)
            => \/ \E r \in RcvSlots : ReceiveStore(r, TRUE) /\ rcv[r].id = c
               \/ ResultKey(c) \notin DOMAIN redis' /\ now' >= wrote[ResultKey(c)] + TTL
       /\ (PolledOk(c) /\ resp.status = 200 /\ PolledOk(c)' /\ resp'.status = 200
             /\ resp'.variant = resp.variant)
            => resp'.body = resp.body ]_vars

C20_Witness ==
  /\ rcv[1].status = 200 /\ rcv[2].status = 200
  /\ rcv[1].id = rcv[2].id /\ rcv[1].body # rcv[2].body
  /\ PolledOk(rcv[1].id) /\ resp.status = 200
  /\ resp.body \in {rcv[1].body, rcv[2].body}

\* C21: every accepted callback for c sets the expiry of result:c to 3600 s
\* after that write, so result:c is present exactly until 3600 s after the
\* latest accepted write; a callback that is rejected leaves the store, the
\* expiry included, as it was.
C21_ExpiryRefreshedOnWrite ==
  [][ /\ \A r \in RcvSlots :
           ReceiveStore(r, TRUE)
             => /\ redis'[ResultKey(rcv[r].id)].exp = now + TTL
                /\ wrote'[ResultKey(rcv[r].id)] = now
      /\ \A r \in RcvSlots :
           (rcv'[r] # rcv[r] /\ rcv'[r].status # 200) => (redis' = redis /\ wrote' = wrote)
      /\ \A c \in CorrIds :
           ResultKey(c) \in DOMAIN wrote'
             => (ResultKey(c) \in DOMAIN redis' <=> now' < wrote'[ResultKey(c)] + TTL) ]_vars

C21_Witness ==
  /\ rcv[1].status = 200 /\ rcv[2].status = 200 /\ rcv[1].id = rcv[2].id
  /\ now >= TTL /\ wrote[ResultKey(rcv[1].id)] > 0
  /\ Present(ResultKey(rcv[1].id))
  /\ redis[ResultKey(rcv[1].id)].exp = wrote[ResultKey(rcv[1].id)] + TTL

\* C22: each operation changes no key but its own (receive: result:c; stage:
\* a temp_profile:t that did not exist; associate: user_profile:u on the
\* write and temp_profile:t on the delete; poll, get-profile and the reading
\* step of associate: none), and what a read answers is what it would answer
\* if its own key were the only key in the store.
SameOutside(db1, db2, keys) ==
  \A k \in (DOMAIN db1 \cup DOMAIN db2) \ keys :
    k \in DOMAIN db1 /\ k \in DOMAIN db2 /\ db1[k] = db2[k]
Only(db, keys) == [k \in DOMAIN db \cap keys |-> db[k]]

C23_WriteBeforeDelete ==
  [][ /\ \A a \in AscSlots :
           /\ AssocWrite(a, TRUE)
                => /\ StoredProfile(redis', asc[a].user) = asc[a].tempProfile
                   /\ SameOutside(redis, redis', {UserProfileKey(asc[a].user)})
           /\ \A ok \in BOOLEAN :
                AssocDelete(a, ok)
                  => /\ Present(UserProfileKey(asc[a].user))
                     /\ OnlyAssociateOf(a)
                          => StoredProfile(redis, asc[a].user) = staged[asc[a].tempId]
           /\ AssocDelete(a, FALSE) => redis' = redis
      /\ \A t \in TempIds :
           (Present(TempProfileKey(t)) /\ TempProfileKey(t) \notin DOMAIN redis')
             => \/ \E a \in AscSlots :
                     asc[a].pc = "written" /\ asc[a].tempId = t /\ AssocDelete(a, TRUE)
                \/ now' >= wrote[TempProfileKey(t)] + TTL ]_vars

C23_Witness ==
  /\ asc[1].pc = "done" /\ asc[1].status = 500 /\ asc[1].tempId \in TempIds
  /\ asc[2].pc = "idle"
  /\ Present(TempProfileKey(asc[1].tempId))
  /\ Present(UserProfileKey(asc[1].user))
  /\ StoredProfile(redis, asc[1].user) = staged[asc[1].tempId]

\* C24: poll and get-profile are pure reads.  Neither changes a key, a value
\* or an expiry of the store (nor the clock), so every key still lapses at
\* the time it would have lapsed without the read; and a poll that follows a
\* poll of the same id, with nothing in between, returns the same response.
C24_ReadsArePure ==
  [][ ( \/ \E initOk, ok \in BOOLEAN, c \in CorrIds : PollRedis(initOk, ok, c)
        \/ \E user \in Users \cup {NoUser}, ok \in BOOLEAN : GetProfile(user, ok) )
      => /\ redis' = redis /\ wrote' = wrote /\ now' = now
         /\ \A k \in DOMAIN redis :
              redis[k].exp # NoExpiry => k \notin DOMAIN Unexpired(redis', redis[k].exp)
         /\ \A c \in CorrIds :
              (PolledOk(c) /\ PollRedis(TRUE, TRUE, c))
                => resp'.status = resp.status /\ resp'.body = resp.body ]_vars

C24_Witness ==
  /\ now > 0
  /\ \E c \in CorrIds : PolledOk(c) /\ resp.status = 200 /\ redis[ResultKey(c)].exp > now
  /\ Present(TempProfileKey("t1"))

\* C25: the sign-up page requests associate only for an authenticated
\* identity: the request it has sent was sent with the new identity's
\* session active, so the associator saw that identity.
C25_AssociateAfterSessionActive ==
  su.pc \in {"requested", "associated", "failed"} => asc[su.slot].user = su.user

\* C26: a failed dispatch aborts the client flow: the page that sees a
\* response other than 200 keeps localStorage and stays where it is; a
\* profile page that polls, polls the id allocated by the latest dispatch
\* answered 200; and a profile page that finds no stored id redirects
\* without polling.
C26_FailedDispatchAborts ==
  [][ /\ \A d \in DispSlots :
           (LandResponse(d) /\ disp[d].status # 200)
             => /\ land'.requestId = land.requestId
                /\ land'.page = land.page
                /\ cli' = cli
      /\ \A api \in PollVariants :
           ProfileOpens(api)
             => IF land.requestId = NoHeader
                THEN cli'.pc = "redirect"
                ELSE cli'.pc = "fetch" /\ cli'.id = land.lastOk /\ land.lastOk \in CorrIds ]_vars

\* C27: an associate request answered with a failure status leaves
\* user_profile and temp_profile as they were before it: as long as every
\* associate request so far has been answered 400, 401, 404 or 500, no
\* user_profile key exists and every staged profile that has not expired is
\* still there to be associated.
C27_FailedAssociateChangesNothing ==
  (\A a \in AscSlots : asc[a].pc = "idle" \/ (asc[a].pc = "done" /\ asc[a].status # 200))
    => /\ \A u \in Users : ~Present(UserProfileKey(u))
       /\ \A t \in TempIds :
            (staged[t] # JUndef /\ now < wrote[TempProfileKey(t)] + TTL)
              => RedisGet(redis, TempProfileKey(t)) = staged[t]

\* C28: a direct fan-out dispatch answers with its id c only after the
\* callback receiver has stored the combined result: once it has answered
\* 200, result:c has been written and is present until it expires, so a poll
\* of c that reads the store before then never answers 404; with the
\* validated receiver it answers 200 with the stored payload.
ReturnedDirect(d) ==
  disp[d].variant = "direct" /\ disp[d].pc = "done" /\ disp[d].status = 200

C28_DirectIdReturnedAfterStore ==
  \A d \in DispSlots :
    ReturnedDirect(d)
      => /\ ResultKey(disp[d].id) \in DOMAIN wrote
         /\ now < wrote[ResultKey(disp[d].id)] + TTL
              => /\ Present(ResultKey(disp[d].id))
                 /\ PollRedisResponse(redis, TRUE, TRUE, disp[d].id).status # 404
                 /\ PolledOk(disp[d].id) => resp.status # 404
                 /\ (deployed = "validated" /\ PolledOk(disp[d].id))
                      => /\ resp.status = 200
                         /\ resp.body = JSONparse(StoredText(redis, disp[d].id))

C28_Witness ==
  /\ ReturnedDirect(1)
  /\ deployed = "validated"
  /\ now > 0
  /\ PolledOk(disp[1].id) /\ resp.status = 200

\* C29: every dispatch answered 200 returns an id, that id is the one it
\* attached to its enrichment request, no other dispatch has the same id,
\* and the callback its job led to is handled under that id.
C29_ReturnedIdIsAttachedId ==
  /\ \A d \in DispSlots :
       (disp[d].pc = "done" /\ disp[d].status = 200)
         => /\ IsString(Prop(disp[d].body, "requestId"))
            /\ disp[d].id \in CorrIds
            /\ Prop(disp[d].body, "requestId").v = disp[d].id
            /\ \A e \in DispSlots \ {d} : disp[e].id # disp[d].id
  /\ \A r \in RcvSlots, d \in DispSlots :
       (rcv[r].src = d /\ rcv[r].pc = "set" /\ disp[d].pc = "callback")
         => rcv[r].id = disp[d].id

\* C30: the results a direct fan-out dispatch has stored hold one
\* {prompt, answer} pair per configured prompt, in the order of the prompts
\* and each with the answer the completion for that prompt gave, whatever
\* the order in which the completions arrived; the profile page's mapping by
\* index then puts the answer to prompt i into the field whose promptIndex
\* is i - 1.
StoredResults(c) == Prop(JSONparse(StoredText(redis, c)), "results")

C30_ResultsFollowPromptOrder ==
  \A d \in DispSlots :
    (ReturnedDirect(d) /\ Present(ResultKey(disp[d].id)))
      => /\ IsArray(StoredResults(disp[d].id))
         /\ Len(StoredResults(disp[d].id).v) = NumPrompts
         /\ \A i \in 1..NumPrompts :
              LET pair == StoredResults(disp[d].id).v[i]
                  data == FormattedData(JSONparse(StoredText(redis, disp[d].id)))
              IN /\ Prop(pair, "prompt") = Prompts[i]
                 /\ Prop(pair, "answer") \in AnswersTo(i)
                 /\ FieldKey(i - 1) \in DOMAIN data
                 /\ DataFields[CHOOSE j \in 1..Len(DataFields) :
                                 DataFields[j].key = FieldKey(i - 1)].promptIndex = i - 1
                 /\ data[FieldKey(i - 1)] \in AnswersTo(i)

C30_Witness ==
  /\ ReturnedDirect(1) /\ ReturnedDirect(2)
  /\ \A d \in DispSlots :
       /\ Present(ResultKey(disp[d].id))
       /\ \A i \in 1..NumPrompts :
            FormattedData(JSONparse(StoredText(redis, disp[d].id)))[FieldKey(i - 1)]
              = JStr(AnswerNames[i])

====
